---- MODULE Spec2Model ----
(***************************************************************************)
(* A model of reddit-save: RedditArchiver.archive (the incremental index   *)
(* reconciler of reddit_archiver.py) and the two save_media                *)
(* implementations (reddit_archiver.py and utilities.py).                  *)
(*                                                                         *)
(* Text is a sequence of tokens.  A token is a record [t, v]: a markup     *)
(* unit of the HTML templates (an opening tag, an end marker, an id        *)
(* attribute, a placeholder) or one character of item data.                *)
(***************************************************************************)
EXTENDS Integers, Sequences, FiniteSets, TLC

\* ------------------------------------------------------------------ bounds
\* Number of archive() invocations in one behaviour.
MaxPasses == 2
\* Number of exceptions and kills in one behaviour.
MaxFaults == 1
\* The hash seeds a Python process can start with are 0..MaxHashSeed.
MaxHashSeed == 2
\* How many image-host candidates answer 200, and how many fail in transport.
MaxAnswering == 2
MaxErrors == 1
\* The longest short title _sanitize_filename is called with.
MaxTitleLen == 3

\* ------------------------------------------------------- program constants
MAX_FILENAME_LENGTH == 160
RESPONSE_SIZE_CEILING == 50000

IMAGE_EXTENSIONS == {"jpg", "jpeg", "png", "bmp", "gif", "webp", "tiff", "gifv"}
VIDEO_EXTENSIONS == {"mp4", "mkv", "webm", "flv", "avi", "mov"}
\* utilities.py keeps the extensions in a list; this is its order
IMAGE_EXTENSIONS_LIST == <<"jpg", "jpeg", "png", "bmp", "gif", "webp", "tiff", "gifv">>
\* domains, as their labels joined by "."
PLATFORMS == { <<"youtube", ".", "com">>, <<"vimeo", ".", "com">>,
               <<"dailymotion", ".", "com">>, <<"redgifs", ".", "com">>,
               <<"gfycat", ".", "com">>, <<"imgur", ".", "com">> }

\* ------------------------------------------------------------------ tokens
Tok(t, v) == [t |-> t, v |-> v]
\* <div class="c"
OpenTag(c) == Tok("open", c)
\* <!--cend--></div>
EndTag(c) == Tok("end", c)
\*  id="i"
IdAttr(i) == Tok("id", i)
\* <a href="posts/i.html">
PageLink(i) == Tok("link", i)
\* a template placeholder such as <!--title-->
Placeholder(name) == Tok("ph", name)
\* one character of data
Ch(x) == Tok("ch", x)

\* Characters.  "nbsp" is U+00A0, "ff" is form feed: both are whitespace to
\* Python's \s and \S, neither is in the class [\S\n\t\v ].
NONWORD_SPACE == {"nbsp", "ff"}
WHITESPACE == {" ", "\n", "\t", "\r"} \cup NONWORD_SPACE
PUNCT == {"?", "!", "."}

RECURSIVE Join(_, _)
\* sep.join(ss)
Join(sep, ss) ==
    IF ss = <<>> THEN <<>>
    ELSE IF Len(ss) = 1 THEN Head(ss)
    ELSE Head(ss) \o sep \o Join(sep, Tail(ss))

RECURSIVE Replace(_, _, _)
\* html.replace(placeholder, value): every occurrence of the token `old`
Replace(html, old, value) ==
    IF html = <<>> THEN <<>>
    ELSE (IF Head(html) = old THEN value ELSE <<Head(html)>>)
         \o Replace(Tail(html), old, value)

RECURSIVE _replace_html_placeholders(_, _)
\* replacements is a sequence of <<placeholder token, value>> pairs, applied
\* in dictionary order
_replace_html_placeholders(html, replacements) ==
    IF replacements = <<>> THEN html
    ELSE _replace_html_placeholders(
             Replace(html, Head(replacements)[1], Head(replacements)[2]),
             Tail(replacements))

Chars(s) == [i \in 1..Len(s) |-> Ch(s[i])]

\* ------------------------------------------------------------ the templates
\* html/post-div.html: the block the regular expression of
\* _get_existing_items delimits, carrying the item's identifier.
PostDivTemplate ==
    << OpenTag("post"), IdAttr("<!--id-->"), PageLink("<!--link-->"),
       Placeholder("<!--title-->"), Placeholder("<!--preview-->"),
       Placeholder("<!--body-->"), EndTag("post") >>

\* html/comment-div.html
CommentDivTemplate ==
    << OpenTag("comment"), IdAttr("<!--id-->"), Placeholder("<!--body-->"),
       Placeholder("<!--children-->"), EndTag("comment") >>

\* html/saved.html and html/upvoted.html
IndexTemplate(mode) ==
    << Tok("html", mode), Placeholder("<style></style>"),
       Placeholder("<!--posts-->"), Placeholder("<!--comments-->"),
       Placeholder("<script></script>") >>

StyleCss == << Tok("css", "style.css") >>
MainJs == << Tok("js", "main.js") >>

\* ------------------------------------------------------------------- items
None == "None"

\* The posts a listing can return.  a and b share subreddit and title; the
\* body of b holds a no-break space.
PostA == [id |-> "a", subreddit |-> <<"s">>, title |-> <<"T">>,
          selftext_html |-> <<"x", "\n", "y">>, media |-> "a.jpg"]
PostB == [id |-> "b", subreddit |-> <<"s">>, title |-> <<"T">>,
          selftext_html |-> <<"x", "nbsp", "y">>, media |-> None]
AllPosts == {PostA, PostB}

\* The saved comments a listing can return: k carries two replies, and the
\* first of them is a saved comment too.
Reply1 == [id |-> "r1", body_html |-> <<"p">>, replies |-> <<>>]
Reply2 == [id |-> "r2", body_html |-> <<"q", "\r", "u">>, replies |-> <<>>]
CommentK == [id |-> "k", body_html |-> <<"w">>, replies |-> <<Reply1, Reply2>>]
AllComments == {CommentK, Reply1}

Modes == {"saved", "upvoted"}

\* media.split(".")[-1]
ExtensionOf(media) ==
    CASE media = "a.jpg" -> "jpg"
      [] media = "b.mp4" -> "mp4"
      [] OTHER -> "bin"

\* All sequences of distinct elements of S
RECURSIVE DistinctSeqs(_)
DistinctSeqs(S) ==
    {<<>>} \cup UNION {{<<x>> \o t : t \in DistinctSeqs(S \ {x})} : x \in S}

Range(s) == {s[i] : i \in 1..Len(s)}

\* What user.saved() and user.upvoted() can yield
PostListings == DistinctSeqs(AllPosts)
CommentListings == DistinctSeqs(AllComments)

\* --------------------------------------------------------------- rendering
\* RedditArchiver.get_post_html
get_post_html(post) ==
    _replace_html_placeholders(PostDivTemplate,
        << <<Placeholder("<!--title-->"), Chars(post.title)>>,
           <<PageLink("<!--link-->"), <<PageLink(post.id)>> >>,
           <<IdAttr("<!--id-->"), <<IdAttr(post.id)>> >>,
           <<Placeholder("<!--body-->"), Chars(post.selftext_html)>> >>)

\* RedditArchiver.add_media_preview_to_html
add_media_preview_to_html(post_html, media) ==
    LET extension == ExtensionOf(media) IN
    IF extension \in IMAGE_EXTENSIONS
    THEN Replace(post_html, Placeholder("<!--preview-->"), <<Tok("img", media)>>)
    ELSE IF extension \in VIDEO_EXTENSIONS
    THEN Replace(post_html, Placeholder("<!--preview-->"), <<Tok("video", media)>>)
    ELSE post_html

RECURSIVE get_comment_html(_, _)
\* RedditArchiver.get_comment_html
get_comment_html(comment, children) ==
    LET html == _replace_html_placeholders(CommentDivTemplate,
                    << <<Placeholder("<!--body-->"), Chars(comment.body_html)>>,
                       <<IdAttr("<!--id-->"), <<IdAttr(comment.id)>> >> >>)
        children_html == [i \in 1..Len(comment.replies) |->
                             get_comment_html(comment.replies[i], FALSE)]
    IN  IF children
        THEN Replace(html, Placeholder("<!--children-->"),
                     Join(<<Ch("\n")>>, children_html))
        ELSE html

\* ------------------------------------------------------------ the index file
\* os.linesep
LineSep == <<Ch("\n")>>

RECURSIVE WriteText(_)
\* Path.write_text: text mode, every "\n" becomes os.linesep
WriteText(text) ==
    IF text = <<>> THEN <<>>
    ELSE (IF Head(text) = Ch("\n") THEN LineSep ELSE <<Head(text)>>)
         \o WriteText(Tail(text))

RECURSIVE ReadText(_)
\* Path.read_text: universal newlines, "\r\n" and "\r" become "\n"
ReadText(bytes) ==
    IF bytes = <<>> THEN <<>>
    ELSE IF Head(bytes) = Ch("\r")
    THEN IF Len(bytes) > 1 /\ bytes[2] = Ch("\n")
         THEN <<Ch("\n")>> \o ReadText(Tail(Tail(bytes)))
         ELSE <<Ch("\n")>> \o ReadText(Tail(bytes))
    ELSE <<Head(bytes)>> \o ReadText(Tail(bytes))

\* Does every character of the token match the class [\S\n\t\v ] ?
InItemClass(tok) == ~(tok.t = "ch" /\ tok.v \in (NONWORD_SPACE \cup {"\r"}))

\* re.findall(r'id="(.+?)"', content)
FindAllIds(content) ==
    LET hits == SelectSeq(content, LAMBDA tok : tok.t = "id")
    IN  [i \in 1..Len(hits) |-> hits[i].v]

\* Where the non-greedy match that starts at i ends, or 0 when no match
\* starts at i: [...]+? needs one character at least, then runs to the first
\* end marker, and every character on the way must be in the class.
MatchEnd(content, i, item_class) ==
    IF content[i] # OpenTag(item_class) THEN 0
    ELSE LET ends == {j \in (i + 2)..Len(content) : content[j] = EndTag(item_class)}
         IN  IF ends = {} THEN 0
             ELSE LET j == CHOOSE e \in ends : \A o \in ends : e <= o
                  IN  IF \A k \in (i + 1)..(j - 1) : InItemClass(content[k])
                      THEN j ELSE 0

RECURSIVE FindAllItems(_, _, _)
\* re.findall(rf'(<div class="{item_class}"[\S\n\t\v ]+?<!--{item_class}end--><\/div>)', content)
\* scanning from position i
FindAllItems(content, i, item_class) ==
    IF i > Len(content) THEN <<>>
    ELSE LET j == MatchEnd(content, i, item_class)
         IN  IF j > 0
             THEN <<SubSeq(content, i, j)>> \o FindAllItems(content, j + 1, item_class)
             ELSE FindAllItems(content, i + 1, item_class)

NoFile == [exists |-> FALSE, bytes |-> <<>>]

\* RedditArchiver._get_existing_items: <<ids, items_html>>
_get_existing_items(file, item_class) ==
    IF ~file.exists THEN << <<>>, <<>> >>
    ELSE LET content == ReadText(file.bytes)
         IN  << FindAllIds(content), FindAllItems(content, 1, item_class) >>


\* ---------------------------------------------------------------- filenames
\* str.upper on the letters the model uses
ToUpper(c) ==
    CASE c = "c" -> "C" [] c = "o" -> "O" [] c = "n" -> "N" [] c = "s" -> "S"
      [] c = "x" -> "X" [] c = "y" -> "Y" [] c = "z" -> "Z"
      [] OTHER -> c

Upper(s) == [i \in 1..Len(s) |-> ToUpper(s[i])]

RESERVED ==
    { <<"C", "O", "N">>, <<"P", "R", "N">>, <<"A", "U", "X">>, <<"N", "U", "L">> }
    \cup { <<"C", "O", "M", d>> : d \in {"1", "2", "3", "4", "5", "6", "7", "8", "9"} }
    \cup { <<"L", "P", "T", d>> : d \in {"1", "2", "3", "4", "5", "6", "7", "8", "9"} }

\* \w : letters, digits and the underscore
IsWordChar(c) == c \notin (WHITESPACE \cup PUNCT \cup {"-"})

\* re.sub(r'[-_]+', '_', filename): the first character of each run of
\* hyphens and underscores becomes the underscore, the others go.
CollapseRuns(s) ==
    LET InRun(i) == s[i] \in {"-", "_"}
        marked == [i \in 1..Len(s) |->
                      IF ~InRun(i) THEN s[i]
                      ELSE IF i > 1 /\ InRun(i - 1) THEN "" ELSE "_"]
    IN  SelectSeq(marked, LAMBDA c : c # "")

RECURSIVE LStrip(_, _)
LStrip(s, cs) == IF s # <<>> /\ Head(s) \in cs THEN LStrip(Tail(s), cs) ELSE s

RECURSIVE RStrip(_, _)
RStrip(s, cs) ==
    IF s # <<>> /\ s[Len(s)] \in cs THEN RStrip(SubSeq(s, 1, Len(s) - 1), cs) ELSE s

\* RedditArchiver._sanitize_filename
_sanitize_filename(subreddit, title) ==
    LET f1 == subreddit \o <<"_">> \o title
        f2 == SelectSeq(f1, LAMBDA c : IsWordChar(c) \/ c \in WHITESPACE \/ c = "-")
        f3 == [i \in 1..Len(f2) |-> IF f2[i] = " " THEN "_" ELSE f2[i]]
        f4 == CollapseRuns(f3)
        f5 == RStrip(LStrip(f4, {"_", "-", "."}), {"_", "-", "."})
        f6 == IF f5 = <<>> THEN <<"u", "n", "t", "i", "t", "l", "e", "d">> ELSE f5
        f7 == SubSeq(f6, 1, IF Len(f6) < MAX_FILENAME_LENGTH THEN Len(f6)
                               ELSE MAX_FILENAME_LENGTH)
        f8 == RStrip(f7, {".", " "})
    IN  IF Upper(f8) \in RESERVED THEN <<"p", "o", "s", "t", "_">> \o f8 ELSE f8

\* posts/{postfile}.html
PagePath(postfile) == postfile \o <<".html">>
\* posts/{postfile}_{post.id}.html
PagePathWithId(postfile, id) == postfile \o <<"_", id, ".html">>


\* -------------------------------------------------------------------- urls
RECURSIVE Split(_, _)
\* s.split(sep)
Split(s, sep) ==
    LET at == {i \in 1..Len(s) : s[i] = sep}
    IN  IF at = {} THEN <<s>>
        ELSE LET i == CHOOSE x \in at : \A y \in at : x <= y
             IN  <<SubSeq(s, 1, i - 1)>> \o Split(SubSeq(s, i + 1, Len(s)), sep)

\* str.lower on the labels the model uses
ToLower(c) == CASE c = "PNG" -> "png" [] c = "JPG" -> "jpg" [] OTHER -> c
Lower(s) == [i \in 1..Len(s) |-> ToLower(s[i])]

\* url.endswith(suffix)
EndsWith(s, suffix) ==
    /\ Len(suffix) <= Len(s)
    /\ SubSeq(s, Len(s) - Len(suffix) + 1, Len(s)) = suffix

\* seq[-2:]
LastTwo(seq) == IF Len(seq) <= 2 THEN seq ELSE SubSeq(seq, Len(seq) - 1, Len(seq))

Permalink(id) == <<"/", "r", "/", "s", "/", "comments", "/", id, "/", "title", "/">>

Https(rest) == <<"https:", "/", "/">> \o rest

\* The posts save_media is called with
MediaPosts ==
    { [id |-> "p1", permalink |-> Permalink("p1"),
       url |-> Https(<<"www", ".", "reddit", ".", "com">> \o Permalink("p1"))],
      [id |-> "p2", permalink |-> Permalink("p2"),
       url |-> Https(<<"i", ".", "imgur", ".", "com", "/", "abc", ".", "jpg">>)],
      [id |-> "p3", permalink |-> Permalink("p3"),
       url |-> Https(<<"imgur", ".", "com", "/", "gallery", "/", "abc">>)],
      [id |-> "p4", permalink |-> Permalink("p4"),
       url |-> Https(<<"imgur", ".", "com", "/", "abc">>)],
      [id |-> "p5", permalink |-> Permalink("p5"),
       url |-> Https(<<"v", ".", "redd", ".", "it", "/", "xyz">>)],
      [id |-> "p6", permalink |-> Permalink("p6"),
       url |-> Https(<<"gfycat", ".", "com", "/", "name">>)],
      [id |-> "p7", permalink |-> Permalink("p7"),
       url |-> Https(<<"youtube", ".", "com", "/", "watch", "?", "v=1">>)],
      [id |-> "p8", permalink |-> Permalink("p8"),
       url |-> Https(<<"example", ".", "com", "/", "page">>)],
      [id |-> "p9", permalink |-> Permalink("p9"),
       url |-> Https(<<"i", ".", "redd", ".", "it", "/", "pic", ".", "PNG">>)],
      [id |-> "p10", permalink |-> Permalink("p10"),
       url |-> Https(<<"m", ".", "imgur", ".", "com", "/", "abc", ".", "gifv">>)],
      [id |-> "p11", permalink |-> Permalink("p11"),
       url |-> Https(<<"gfycat", ".", "com", "/", "name", ".", "mp4">>)],
      [id |-> "p12", permalink |-> Permalink("p12"),
       url |-> Https(<<"example", ".", "com", "/", "pic", ".", "jpg">>)],
      \* a url with no "/" at all, and a permalink that is only "/"
      [id |-> "p13", permalink |-> Permalink("p13"), url |-> <<"abc">>],
      [id |-> "p14", permalink |-> <<"/">>,
       url |-> Https(<<"example", ".", "com", "/", "x">>)] }

\* What the image host can do with the candidates of one post
SmallSubsets(S, n) == {T \in SUBSET S : Cardinality(T) <= n}
AnsweringSets == SmallSubsets(IMAGE_EXTENSIONS, MaxAnswering)
FailingSets == SmallSubsets(IMAGE_EXTENSIONS, MaxErrors)

\* The two implementations of save_media
Impls == {"RedditArchiver", "utilities"}

\* extension = stripped_url.split(".")[-1].lower()
UrlExtension(url) ==
    LET stripped_url == Split(url, "?")[1]
        parts == Split(stripped_url, ".")
    IN  Lower(parts[Len(parts)])

\* url.split("/")[2] raises IndexError when the url has fewer than 3 parts
HasHostPart(url) == Len(Split(url, "/")) >= 3

\* domain = ".".join(url.split("/")[2].split(".")[-2:])
UrlDomain(url) == Join(<<".">>, LastTwo(Split(Split(url, "/")[3], ".")))

\* [part for part in post.permalink.split("/") if part]
PermalinkParts(permalink) == SelectSeq(Split(permalink, "/"), LAMBDA part : part # <<>>)

KnownExtension(extension) ==
    Len(extension) = 1 /\ extension[1] \in IMAGE_EXTENSIONS \cup VIDEO_EXTENSIONS

\* The conditions that guard the strategies of save_media, in code order
Strategies == <<"direct", "vreddit", "gfycat", "imgur", "ytdlp">>

Applies(strategy, extension, domain) ==
    CASE strategy = "direct" -> KnownExtension(extension)
      [] strategy = "vreddit" -> domain = <<"redd", ".", "it">>
      [] strategy = "gfycat" -> domain = <<"gfycat", ".", "com">>
      [] strategy = "imgur" -> domain = <<"imgur", ".", "com">> /\ extension # <<"gifv">>
      [] strategy = "ytdlp" -> domain \in PLATFORMS
      [] OTHER -> FALSE

\* The first strategy from position k on whose condition holds; "returned"
\* (return None) when none does.
NextStage(k, extension, domain) ==
    LET ok == {j \in k..Len(Strategies) : Applies(Strategies[j], extension, domain)}
    IN  IF ok = {} THEN "returned"
        ELSE Strategies[CHOOSE j \in ok : \A o \in ok : j <= o]

\* f"{readable_name}_{post.id}.{extension}"
MediaName(readable_name, id, ext) == [stem |-> readable_name, id |-> id, ext |-> ext]

\* The order `for ext in IMAGE_EXTENSIONS` runs in.  RedditArchiver iterates
\* a set of strings, whose order follows the string hashes of the process:
\* the model keeps the rotations of the literal's order.  utilities.py
\* iterates a list.
Rotate(seq, n) == [i \in 1..Len(seq) |-> seq[((i - 1 + n) % Len(seq)) + 1]]

ProbeOrder(impl, seed) ==
    IF impl = "RedditArchiver" THEN Rotate(IMAGE_EXTENSIONS_LIST, seed)
    ELSE IMAGE_EXTENSIONS_LIST

RECURSIVE ProbeLoop(_, _, _, _, _)
\* The loop over the candidates from position i on: <<result, probed>>
\* where result is the extension whose candidate answered 200, "error" when
\* the loop was left on a transport error, None when it ran out.
ProbeLoop(impl, order, i, answering, failing) ==
    IF i > Len(order) THEN <<None, <<>> >>
    ELSE LET ext == order[i]
             rest == ProbeLoop(impl, order, i + 1, answering, failing)
         IN  IF ext \in failing
             THEN IF impl = "RedditArchiver"
                  THEN <<rest[1], <<ext>> \o rest[2]>>
                  ELSE <<"error", <<ext>> >>
             ELSE IF ext \in answering
             THEN <<ext, <<ext>> >>
             ELSE <<rest[1], <<ext>> \o rest[2]>>

\* ------------------------------------------------------------------- state
VARIABLES
    index,      \* <root>/<mode>.html for each mode: [exists, bytes]
    posts_dir,  \* <root>/posts: path |-> [id, writes], the page's post and
                \* the number of times write_text has written the path
    media_dir,  \* <root>/media: the set of file names
    pc,         \* where archive() is: idle, get_posts, posts, comments, or
                \* how it ended: done, raised, killed
    pass,       \* the locals of the running (or last) archive() call; before
                \* is embedded[mode] when it started, repeat says that the call
                \* before it completed on the same mode with the same posts
    log,        \* the calls the running (or last) archive() call has made:
                \* rendered, media, pages are the items the loops called
                \* get_post_html / get_comment_html, save_media and write_text
                \* for; nested are the replies get_comment_html rendered
                \* inside the fragment of another comment; media_files and
                \* page_paths are the files written under media/ and
                \* posts/, index_writes counts the writes of the index
    embedded,   \* for each mode, the fragment lists joined into the index file
    passes,     \* the number of archive() calls started
    faults      \* the number of exceptions and kills so far

archiveVars == <<index, posts_dir, media_dir, pc, pass, log, embedded, passes, faults>>

VARIABLES
    call,        \* the running (or last) save_media call
    cwd,         \* the working directory of the process
    hash_seed,   \* the string-hash seed of the process
    orders_used  \* for each implementation, the orders its runs probed in

mediaVars == <<call, cwd, hash_seed, orders_used>>

VARIABLES
    naming       \* the running (or last) _sanitize_filename call: its
                 \* arguments and, once it has returned, its result

sanitizerVars == <<naming>>

vars == <<archiveVars, mediaVars, sanitizerVars>>

NoPass ==
    [mode |-> "saved", all_posts |-> <<>>, all_comments |-> <<>>,
     existing_post_ids |-> <<>>, existing_posts_html |-> <<>>,
     existing_comment_ids |-> <<>>, existing_comments_html |-> <<>>,
     new_posts |-> <<>>, new_comments |-> <<>>, i |-> 1, k |-> 1,
     posts_html |-> <<>>, comments_html |-> <<>>,
     before |-> [post |-> <<>>, comment |-> <<>>],
     repeat |-> FALSE, prev_posts |-> <<>>, index_before |-> NoFile]

NoLog ==
    [rendered |-> {}, nested |-> {}, media |-> {}, pages |-> {}, failed |-> {},
     media_files |-> {}, page_paths |-> {}, index_writes |-> 0]

NoCall ==
    [impl |-> "RedditArchiver", post |-> [id |-> "", permalink |-> <<>>, url |-> <<>>],
     url |-> <<>>, extension |-> <<>>, domain |-> <<>>, readable_name |-> <<>>,
     stage |-> "idle", ret |-> <<>>, wrote |-> {}, attempted |-> {},
     direct |-> None, current_dir |-> "root", downloaded |-> FALSE,
     body |-> [fetched |-> FALSE, len |-> 0, has_mp4 |-> FALSE],
     order |-> <<>>, probed |-> <<>>, answering |-> {}, failing |-> {},
     extractor_url |-> <<>>]

MediaInit ==
    /\ call = NoCall
    /\ cwd = "root"
    /\ hash_seed = 0
    /\ orders_used = [impl \in Impls |-> {}]

ArchiveInit ==
    /\ index = [m \in Modes |-> NoFile]
    /\ posts_dir = <<>>
    /\ media_dir = {}
    /\ pc = "idle"
    /\ pass = NoPass
    /\ log = NoLog
    /\ embedded = [m \in Modes |-> [post |-> <<>>, comment |-> <<>>]]
    /\ passes = 0
    /\ faults = 0

NoNaming == [subreddit |-> <<>>, title |-> <<>>, filename |-> <<>>, stage |-> "idle"]

SanitizerInit == naming = NoNaming

Init == ArchiveInit /\ MediaInit /\ SanitizerInit

\* The filter left out: every listed item counts as new.
NewItemsUnfiltered(all_items, existing_ids) == all_items

\* [p for p in all_posts if p.id not in existing_post_ids]
NewItems(all_items, existing_ids) ==
    SelectSeq(all_items, LAMBDA it : it.id \notin Range(existing_ids))

\* RedditArchiver.get_comments
get_comments(mode, saved_comments) == IF mode # "saved" THEN <<>> ELSE saved_comments

Running == {"get_posts", "posts", "comments"}

\* A loop left before its last item.
LoopDoneEarly(items, position) == TRUE

\* for post in tqdm(new_posts) / for comment in tqdm(new_comments): the code
\* after the loop runs once every item has had its iteration.
LoopDone(items, position) == position > Len(items)

\* archive(mode), its first lines: the existing items are read from the index.
ReadIndex(mode) ==
    /\ pc \notin Running
    /\ passes < MaxPasses
    /\ LET html_file == index[mode]
           posts == _get_existing_items(html_file, "post")
           comments == _get_existing_items(html_file, "comment")
       IN  pass' = [NoPass EXCEPT
                    !.mode = mode,
                    !.existing_post_ids = posts[1],
                    !.existing_posts_html = posts[2],
                    !.existing_comment_ids = comments[1],
                    !.existing_comments_html = comments[2],
                    !.before = embedded[mode],
                    !.index_before = html_file,
                    !.repeat = pc = "done" /\ pass.mode = mode,
                    !.prev_posts = IF pc = "done" /\ pass.mode = mode
                                   THEN pass.all_posts ELSE <<>>]
    /\ log' = NoLog
    /\ pc' = "get_posts"
    /\ passes' = passes + 1
    /\ UNCHANGED <<index, posts_dir, media_dir, embedded, faults>>
    /\ UNCHANGED <<mediaVars, sanitizerVars>>

\* all_posts = self.get_posts(mode) and the filter on the existing ids; the
\* listing the platform returns is the input.
GetPosts(listed_posts) ==
    /\ pc = "get_posts"
    /\ pass' = [pass EXCEPT
                !.all_posts = listed_posts,
                !.new_posts = NewItems(listed_posts, pass.existing_post_ids),
                !.repeat = pass.repeat /\ pass.prev_posts = listed_posts,
                !.prev_posts = <<>>]
    /\ pc' = "posts"
    /\ UNCHANGED <<index, posts_dir, media_dir, log, embedded, passes, faults>>
    /\ UNCHANGED <<mediaVars, sanitizerVars>>

\* posts_html.extend(existing_posts_html); all_comments = self.get_comments(mode)
\* and the filter on the existing ids.
GetComments(listed_comments) ==
    /\ pc = "posts"
    /\ LoopDone(pass.new_posts, pass.i)
    /\ LET all_comments == get_comments(pass.mode, listed_comments)
       IN  pass' = [pass EXCEPT
                    !.all_comments = all_comments,
                    !.new_comments = NewItems(all_comments, pass.existing_comment_ids)]
    /\ pc' = "comments"
    /\ UNCHANGED <<index, posts_dir, media_dir, log, embedded, passes, faults>>
    /\ UNCHANGED <<mediaVars, sanitizerVars>>

\* post_path.write_text(page_html)
WritePage(dir, path, id) ==
    [f \in DOMAIN dir \cup {path} |->
        IF f = path
        THEN [id |-> id, writes |-> IF path \in DOMAIN dir THEN dir[path].writes + 1 ELSE 1]
        ELSE dir[f]]

\* The path archive() writes the page of a post to
PostPath(dir, post) ==
    LET postfile == _sanitize_filename(post.subreddit, post.title)
    IN  IF PagePath(postfile) \notin DOMAIN dir
        THEN PagePath(postfile)
        ELSE PagePathWithId(postfile, post.id)

Outcomes == {"ok", "render_raises", "media_raises", "page_raises"}

\* One iteration of the loop over the new posts.
ProcessPost(outcome) ==
    /\ pc = "posts"
    /\ pass.i <= Len(pass.new_posts)
    /\ outcome # "ok" => faults < MaxFaults
    /\ faults' = IF outcome # "ok" THEN faults + 1 ELSE faults
    /\ LET post == pass.new_posts[pass.i]
           rendered == get_post_html(post)
           media == post.media
           post_html == IF media # None
                        THEN add_media_preview_to_html(rendered, media)
                        ELSE rendered
       IN  CASE outcome = "render_raises" ->
                  \* get_post_html raises: nothing catches it
                  /\ pc' = "raised"
                  /\ log' = [log EXCEPT !.rendered = @ \cup {<<"post", post.id>>},
                                        !.failed = @ \cup {post.id}]
                  /\ UNCHANGED <<pass, posts_dir, media_dir>>
             [] outcome = "media_raises" ->
                  \* save_media raises: nothing catches it
                  /\ pc' = "raised"
                  /\ log' = [log EXCEPT !.rendered = @ \cup {<<"post", post.id>>},
                                        !.media = @ \cup {post.id},
                                        !.failed = @ \cup {post.id}]
                  /\ UNCHANGED <<pass, posts_dir, media_dir>>
             [] outcome = "page_raises" ->
                  \* create_post_page_html or write_text raises: caught
                  /\ pc' = "posts"
                  /\ pass' = [pass EXCEPT !.i = @ + 1,
                                          !.posts_html = Append(@, post_html)]
                  /\ media_dir' = IF media # None THEN media_dir \cup {media} ELSE media_dir
                  /\ log' = [log EXCEPT !.rendered = @ \cup {<<"post", post.id>>},
                                        !.media = @ \cup {post.id},
                                        !.media_files = IF media # None
                                                        THEN @ \cup {media} ELSE @,
                                        !.failed = @ \cup {post.id}]
                  /\ UNCHANGED posts_dir
             [] OTHER ->
                  /\ pc' = "posts"
                  /\ pass' = [pass EXCEPT !.i = @ + 1,
                                          !.posts_html = Append(@, post_html)]
                  /\ media_dir' = IF media # None THEN media_dir \cup {media} ELSE media_dir
                  /\ posts_dir' = WritePage(posts_dir, PostPath(posts_dir, post), post.id)
                  /\ log' = [log EXCEPT !.rendered = @ \cup {<<"post", post.id>>},
                                        !.media = @ \cup {post.id},
                                        !.media_files = IF media # None
                                                        THEN @ \cup {media} ELSE @,
                                        !.pages = @ \cup {post.id},
                                        !.page_paths = @ \cup {PostPath(posts_dir, post)}]
    /\ UNCHANGED <<index, embedded, passes>>
    /\ UNCHANGED <<mediaVars, sanitizerVars>>

\* One iteration of the loop over the new comments.
ProcessComment ==
    /\ pc = "comments"
    /\ pass.k <= Len(pass.new_comments)
    /\ LET comment == pass.new_comments[pass.k]
       IN  /\ pass' = [pass EXCEPT !.k = @ + 1,
                          !.comments_html = Append(@, get_comment_html(comment, TRUE))]
           /\ log' = [log EXCEPT !.rendered = @ \cup {<<"comment", comment.id>>},
                                 !.nested = @ \cup {comment.replies[j].id :
                                                       j \in 1..Len(comment.replies)}]
    /\ UNCHANGED <<index, posts_dir, media_dir, pc, embedded, passes, faults>>
    /\ UNCHANGED <<mediaVars, sanitizerVars>>

\* posts_html.extend(existing_posts_html)
FinalItems(new_html, existing_html) == new_html \o existing_html

\* The end of archive(): the index is generated and written.
WriteIndex ==
    /\ pc = "comments"
    /\ LoopDone(pass.new_comments, pass.k)
    /\ LET posts_html == FinalItems(pass.posts_html, pass.existing_posts_html)
           comments_html == FinalItems(pass.comments_html, pass.existing_comments_html)
           final_html == _replace_html_placeholders(IndexTemplate(pass.mode),
               << <<Placeholder("<style></style>"), StyleCss>>,
                  <<Placeholder("<script></script>"), MainJs>>,
                  <<Placeholder("<!--posts-->"), Join(<<Ch("\n")>>, posts_html)>>,
                  <<Placeholder("<!--comments-->"), Join(<<Ch("\n")>>, comments_html)>> >>)
       IN  /\ index' = [index EXCEPT ![pass.mode] =
                           [exists |-> TRUE, bytes |-> WriteText(final_html)]]
           /\ embedded' = [embedded EXCEPT ![pass.mode] =
                              [post |-> posts_html, comment |-> comments_html]]
    /\ log' = [log EXCEPT !.index_writes = @ + 1]
    /\ pc' = "done"
    /\ UNCHANGED <<posts_dir, media_dir, pass, passes, faults>>
    /\ UNCHANGED <<mediaVars, sanitizerVars>>

\* The process is stopped while archive() runs.
Kill ==
    /\ pc \in Running
    /\ faults < MaxFaults
    /\ faults' = faults + 1
    /\ pc' = "killed"
    /\ UNCHANGED <<index, posts_dir, media_dir, pass, log, embedded, passes>>
    /\ UNCHANGED <<mediaVars, sanitizerVars>>

Next ==
    \/ \E mode \in Modes : ReadIndex(mode)
    \/ \E listed_posts \in PostListings : GetPosts(listed_posts)
    \/ \E listed_comments \in CommentListings : GetComments(listed_comments)
    \/ \E outcome \in Outcomes : ProcessPost(outcome)
    \/ ProcessComment
    \/ WriteIndex
    \/ Kill

Spec == Init /\ [][Next]_vars

\* -------------------------------------------------------------- save_media
Ended == {"idle", "returned", "raised"}

\* save_media up to the first strategy: classification of the url, the
\* permalink test and the gallery test.
Begin(impl, post) ==
    /\ call.stage = "idle"
    /\ LET url == post.url
           fresh == [NoCall EXCEPT !.impl = impl, !.post = post, !.url = url]
       IN  IF EndsWith(url, post.permalink)
           THEN call' = [fresh EXCEPT !.stage = "returned"]
           ELSE IF ~HasHostPart(url) \/ PermalinkParts(post.permalink) = <<>>
           THEN call' = [fresh EXCEPT !.stage = "raised"]
           ELSE LET extension == UrlExtension(url)
                    domain == UrlDomain(url)
                    parts == PermalinkParts(post.permalink)
                    classified == [fresh EXCEPT !.extension = extension,
                                                !.domain = domain,
                                                !.readable_name = parts[Len(parts)]]
                IN  IF domain = <<"imgur", ".", "com">> /\ "gallery" \in Range(url)
                    THEN call' = [classified EXCEPT !.stage = "returned"]
                    ELSE call' = [classified EXCEPT
                                     !.stage = NextStage(1, extension, domain)]
    /\ UNCHANGED <<cwd, hash_seed, orders_used>>
    /\ UNCHANGED <<archiveVars, sanitizerVars>>

\* What follows a direct fetch whose content type is neither image nor
\* video: _download_direct_media returns None.
AfterMismatchClass(extension, domain) == "returned"

\* utilities.save_media: the block is left without a return
AfterMismatchUtil(extension, domain) == NextStage(2, extension, domain)

\* The direct fetch: RedditArchiver._download_direct_media and the block of
\* utilities.save_media.  content is what the server answers: an image, a
\* video, some other content type, or a RequestException.
DirectFetch(content) ==
    /\ call.stage = "direct"
    /\ LET filename == MediaName(call.readable_name, call.post.id, call.extension[1])
           tried == [call EXCEPT !.attempted = @ \cup {"direct"}, !.direct = content]
       IN  CASE content \in {"image", "video"} ->
                  call' = [tried EXCEPT !.wrote = @ \cup {filename},
                                        !.ret = <<filename>>,
                                        !.stage = "returned"]
             [] content = "error" ->
                  call' = [tried EXCEPT !.stage = "returned"]
             [] OTHER ->
                  call' = [tried EXCEPT !.stage =
                              IF call.impl = "RedditArchiver"
                              THEN AfterMismatchClass(call.extension, call.domain)
                              ELSE AfterMismatchUtil(call.extension, call.domain)]
    /\ UNCHANGED <<cwd, hash_seed, orders_used>>
    /\ UNCHANGED <<archiveVars, sanitizerVars>>

\* The working directory when the v.redd.it strategy returns after a
\* successful download: nothing changes it back.
CwdAfterSuccess(current_dir, after_download) == after_download

\* os.chdir(current_dir) in the except block
CwdAfterFailure(current_dir, after_download) == current_dir

\* RedditArchiver._download_vreddit and the v.redd.it block of
\* utilities.save_media.  The downloader may change the working directory;
\* it or os.rename may raise.
VReddit(chdir, outcome) ==
    /\ call.stage = "vreddit"
    /\ LET current_dir == cwd
           after_download == IF chdir THEN "tmp" ELSE cwd
           filename == MediaName(call.readable_name, call.post.id, "mp4")
           tried == [call EXCEPT !.attempted = @ \cup {"vreddit"},
                                 !.current_dir = current_dir,
                                 !.stage = "returned"]
       IN  IF outcome = "ok"
           THEN /\ call' = [tried EXCEPT !.wrote = @ \cup {filename},
                                         !.ret = <<filename>>,
                                         !.downloaded = TRUE]
                /\ cwd' = CwdAfterSuccess(current_dir, after_download)
           ELSE /\ call' = tried
                /\ cwd' = CwdAfterFailure(current_dir, after_download)
    /\ UNCHANGED <<hash_seed, orders_used>>
    /\ UNCHANGED <<archiveVars, sanitizerVars>>

ResolvedUrl == <<"http", "s://giant.gfycat.com/name", ".mp4">>

\* RedditArchiver._resolve_gfycat_url and its use: None unless the body is
\* short and holds the pattern.
AfterPageClass(len, has_mp4, extension, domain) ==
    IF len < RESPONSE_SIZE_CEILING /\ has_mp4
    THEN [resolved |-> TRUE, stage |-> NextStage(4, extension, domain)]
    ELSE [resolved |-> FALSE, stage |-> "returned"]

\* utilities.save_media: `else: return None` belongs to `if match`; a body
\* of 50000 bytes or more leaves the block with the url as it was.
AfterPageUtil(len, has_mp4, extension, domain) ==
    IF len < RESPONSE_SIZE_CEILING
    THEN IF has_mp4
         THEN [resolved |-> TRUE, stage |-> NextStage(4, extension, domain)]
         ELSE [resolved |-> FALSE, stage |-> "returned"]
    ELSE [resolved |-> FALSE, stage |-> NextStage(4, extension, domain)]

BodyLengths == {RESPONSE_SIZE_CEILING - 1, RESPONSE_SIZE_CEILING}

\* What becomes of a body that is not valid UTF-8: response.text replaces
\* the bad bytes.
UndecodableClass(len) == "scanned"

\* utilities.save_media: html.decode() raises UnicodeDecodeError, which the
\* except clause (RequestException, Timeout) does not catch; a body at or
\* above the ceiling is never decoded.
UndecodableUtil(len) == IF len < RESPONSE_SIZE_CEILING THEN "raised" ELSE "scanned"

\* The gfycat page is fetched.
Gfycat(outcome, len, has_mp4) ==
    /\ call.stage = "gfycat"
    /\ LET tried == [call EXCEPT !.attempted = @ \cup {"gfycat"}]
           decode == IF outcome # "undecodable" THEN "scanned"
                     ELSE IF call.impl = "RedditArchiver" THEN UndecodableClass(len)
                     ELSE UndecodableUtil(len)
       IN  IF outcome = "error"
           THEN call' = [tried EXCEPT !.stage = "returned"]
           ELSE IF decode = "raised"
           THEN call' = [tried EXCEPT
                            !.body = [fetched |-> TRUE, len |-> len, has_mp4 |-> has_mp4],
                            !.stage = "raised"]
           ELSE LET after == IF call.impl = "RedditArchiver"
                             THEN AfterPageClass(len, has_mp4, call.extension, call.domain)
                             ELSE AfterPageUtil(len, has_mp4, call.extension, call.domain)
                IN  call' = [tried EXCEPT
                                !.body = [fetched |-> TRUE, len |-> len, has_mp4 |-> has_mp4],
                                !.url = IF after.resolved THEN ResolvedUrl ELSE @,
                                !.stage = after.stage]
    /\ UNCHANGED <<cwd, hash_seed, orders_used>>
    /\ UNCHANGED <<archiveVars, sanitizerVars>>

\* RedditArchiver._download_imgur and the imgur block of
\* utilities.save_media: the loop over the candidates.  answering are the
\* extensions whose candidate answers 200, failing those whose request
\* raises a RequestException.
ImgurProbe(answering, failing) ==
    /\ call.stage = "imgur"
    /\ answering \cap failing = {}
    /\ LET order == ProbeOrder(call.impl, hash_seed)
           loop == ProbeLoop(call.impl, order, 1, answering, failing)
           tried == [call EXCEPT !.attempted = @ \cup {"imgur"},
                                 !.order = order, !.probed = loop[2],
                                 !.answering = answering, !.failing = failing]
       IN  /\ CASE loop[1] = "error" ->
                     call' = [tried EXCEPT !.stage = "returned"]
                [] loop[1] = None ->
                     call' = [tried EXCEPT !.stage =
                                 IF call.impl = "RedditArchiver" THEN "returned"
                                 ELSE NextStage(5, call.extension, call.domain)]
                [] OTHER ->
                     LET filename == MediaName(call.readable_name, call.post.id, loop[1])
                     IN  call' = [tried EXCEPT !.wrote = @ \cup {filename},
                                               !.ret = <<filename>>,
                                               !.stage = "returned"]
           /\ orders_used' = [orders_used EXCEPT ![call.impl] = @ \cup {order}]
    /\ UNCHANGED <<cwd, hash_seed>>
    /\ UNCHANGED <<archiveVars, sanitizerVars>>

\* RedditArchiver._download_with_ytdlp and the yt-dlp block of
\* utilities.save_media.
Ytdlp(outcome) ==
    /\ call.stage = "ytdlp"
    /\ LET filename == MediaName(call.readable_name, call.post.id, "mp4")
           tried == [call EXCEPT !.attempted = @ \cup {"ytdlp"},
                                 !.extractor_url = call.url,
                                 !.stage = "returned"]
       IN  IF outcome = "file"
           THEN call' = [tried EXCEPT !.wrote = @ \cup {filename}, !.ret = <<filename>>]
           ELSE call' = tried
    /\ UNCHANGED <<cwd, hash_seed, orders_used>>
    /\ UNCHANGED <<archiveVars, sanitizerVars>>

\* The image-host strategy, against what the host does with the candidates.
Imgur ==
    /\ call.stage = "imgur"
    /\ \E answering \in AnsweringSets, failing \in FailingSets :
          ImgurProbe(answering, failing)

\* save_media has returned or raised: the caller goes on.
Return ==
    /\ call.stage \in {"returned", "raised"}
    /\ call' = NoCall
    /\ UNCHANGED <<cwd, hash_seed, orders_used>>
    /\ UNCHANGED <<archiveVars, sanitizerVars>>

\* The program is started again: a new process, with its own hash seed.
NewProcess ==
    /\ call.stage \in Ended
    /\ call' = NoCall
    /\ cwd' = "root"
    /\ hash_seed' \in 0..MaxHashSeed
    /\ UNCHANGED orders_used
    /\ UNCHANGED <<archiveVars, sanitizerVars>>

NextMedia ==
    \/ \E impl \in Impls, post \in MediaPosts : Begin(impl, post)
    \/ \E content \in {"image", "video", "text", "error"} : DirectFetch(content)
    \/ \E chdir \in BOOLEAN, outcome \in {"ok", "download_raises", "rename_raises"} :
          VReddit(chdir, outcome)
    \/ \E outcome \in {"ok", "error", "undecodable"}, len \in BodyLengths,
          has_mp4 \in BOOLEAN :
          Gfycat(outcome, len, has_mp4)
    \/ Imgur
    \/ \E outcome \in {"file", "nofile", "raises"} : Ytdlp(outcome)
    \/ Return
    \/ NewProcess

SpecMedia == Init /\ [][NextMedia]_vars

\* ------------------------------------------------------ _sanitize_filename
\* The characters of the titles: letters of a reserved name, a space, a
\* tab, a hyphen and a character that is removed.
TitleChars == {"c", "o", "n", " ", "\t", "-", "?"}

RECURSIVE SeqsUpTo(_, _)
SeqsUpTo(S, n) ==
    IF n = 0 THEN {<<>>}
    ELSE LET shorter == SeqsUpTo(S, n - 1)
         IN  shorter \cup {Append(t, x) : t \in shorter, x \in S}

\* A run of letters that reaches up to the truncation
Padding(n) == [i \in 1..n |-> "a"]

\* The titles: every short one, and long ones that end at, or run over, the
\* maximum length.
Titles ==
    LET short == SeqsUpTo(TitleChars, MaxTitleLen)
    IN  short \cup {Padding(MAX_FILENAME_LENGTH - 3) \o t : t \in short}

Subreddits == {<<>>, <<"s">>}

\* The arguments of a call, as archive passes them
SanitizerInputs ==
    {[NoNaming EXCEPT !.subreddit = sub, !.title = title, !.stage = "called"] :
        sub \in Subreddits, title \in Titles}

SanitizerInputInit == naming \in SanitizerInputs

\* postfile = self._sanitize_filename(str(post.subreddit), post.title)
Sanitize ==
    /\ naming.stage = "called"
    /\ naming' = [naming EXCEPT
                     !.filename = _sanitize_filename(naming.subreddit, naming.title),
                     !.stage = "returned"]
    /\ UNCHANGED <<archiveVars, mediaVars>>

NextSanitizer == Sanitize

InitSanitizer == ArchiveInit /\ MediaInit /\ SanitizerInputInit

SpecSanitizer == InitSanitizer /\ [][NextSanitizer]_vars


\* ------------------------------------------------------------------ claims
\* The number of post fragments for an identifier in the text of an index
PostFragmentCount(bytes, id) ==
    Cardinality({i \in 1..(Len(bytes) - 1) :
                    bytes[i] = OpenTag("post") /\ bytes[i + 1] = IdAttr(id)})

\* C1: when archive has completed twice in a row on the same mode with the
\* same listed posts, the index holds exactly one post fragment for the
\* identifier of each listed post.
C1_Idempotent ==
    (pc = "done" /\ pass.repeat) =>
        \A i \in 1..Len(pass.all_posts) :
            PostFragmentCount(index[pass.mode].bytes, pass.all_posts[i].id) = 1

\* C2: the fragments a completed pass writes are, for posts and for
\* comments, the newly rendered fragments in listing order followed by all
\* the fragments of the index as it was before the pass, in file order.
C2_Ordering ==
    pc = "done" =>
        /\ embedded[pass.mode].post = pass.posts_html \o pass.before.post
        /\ embedded[pass.mode].comment = pass.comments_html \o pass.before.comment

\* The calls the loops of archive make for an item of the listing
LoopCalls(kind, id) ==
    \/ <<kind, id>> \in log.rendered
    \/ kind = "post" /\ id \in (log.media \cup log.pages)

C4_FailureIsolation ==
    (pc \in {"done", "raised"} /\ log.failed # {}) =>
        /\ pc = "done"
        /\ \A i \in 1..Len(pass.new_posts) :
              pass.new_posts[i].id \notin log.failed =>
                  PostFragmentCount(index[pass.mode].bytes, pass.new_posts[i].id) = 1

\* C5: what _get_existing_items reads from an index is, for posts and for
\* comments, the list of the fragments written into it, each one unchanged
\* and a single element.
C5_RoundTrip ==
    pc \in Running =>
        /\ pass.existing_posts_html = pass.before.post
        /\ pass.existing_comments_html = pass.before.comment

\* C10: no path under posts/ is written more than once.
C10_WriteOnce == \A f \in DOMAIN posts_dir : posts_dir[f].writes <= 1


\* C6: in both implementations, a call that made the direct fetch returns a
\* file only when the content type was image or video, and after a
\* transport error or another content type it returns no media, has written
\* no file and has tried no other strategy.
C6_DirectFetchOnly ==
    "direct" \in call.attempted =>
        /\ call.ret # <<>> => call.direct \in {"image", "video"}
        /\ call.direct \in {"text", "error"} =>
              /\ call.ret = <<>>
              /\ call.wrote = {}
              /\ call.attempted = {"direct"}

\* C7: in both implementations, for a gfycat url the extractor runs only on
\* the url resolved from a body under 50000 bytes that holds the pattern;
\* after any other answer the call returns no media without the extractor.
C7_RedirectResolution ==
    call.domain = <<"gfycat", ".", "com">> =>
        LET resolvable == /\ call.body.fetched
                          /\ call.body.len < RESPONSE_SIZE_CEILING
                          /\ call.body.has_mp4
        IN  /\ "ytdlp" \in call.attempted =>
                  resolvable /\ call.extractor_url = ResolvedUrl
            /\ ("gfycat" \in call.attempted /\ ~resolvable) => call.ret = <<>>

\* C8: in both implementations the candidates are probed in one order, the
\* same on every run; a call that probed returns the file of the first
\* candidate in that order that answers 200, whatever candidates fail in
\* transport, and returns no media exactly when no candidate answers 200.
C8_ProbingOrder ==
    "imgur" \in call.attempted =>
        LET hits == {i \in 1..Len(call.order) : call.order[i] \in call.answering}
            first == CHOOSE i \in hits : \A o \in hits : i <= o
        IN  /\ Cardinality(orders_used[call.impl]) <= 1
            /\ call.stage = "returned" =>
                  call.ret = IF hits = {} THEN <<>>
                             ELSE <<MediaName(call.readable_name, call.post.id,
                                              call.order[first])>>

\* C9: when the v.redd.it strategy has returned, the working directory is
\* the one it was entered with, and a failed download returns no media.
C9_WorkingDirectory ==
    "vreddit" \in call.attempted =>
        /\ cwd = call.current_dir
        /\ ~call.downloaded => call.ret = <<>>


\* C11: save_media returns a file name or no media; it never raises.
C11_Totality == call.stage # "raised"

\* C12: the name _sanitize_filename returns is not empty, has at most 160
\* characters before a reserved-name prefix, holds no whitespace character
\* of any kind, and is not, whatever the case of its letters, a reserved
\* device name.
C12_SanitizerOutput ==
    naming.stage = "returned" =>
        LET f == naming.filename
            prefix == <<"p", "o", "s", "t", "_">>
            prefixed == Len(f) > 5 /\ SubSeq(f, 1, 5) = prefix
                        /\ Upper(SubSeq(f, 6, Len(f))) \in RESERVED
        IN  /\ f # <<>>
            /\ Len(f) <= MAX_FILENAME_LENGTH + (IF prefixed THEN 5 ELSE 0)
            /\ \A i \in 1..Len(f) : f[i] \notin WHITESPACE
            /\ Upper(f) \notin RESERVED

\* What C13 says of a state: a pass that has not reached its end, or has
\* stopped before it, has not written the index, whose file is as it was
\* before the pass, and the pages and media files it has written are on
\* disk; a completed pass has written the index once, after every new post
\* and every new comment was processed.
C13_State ==
    /\ pc \in Running \cup {"raised", "killed"} =>
          /\ log.index_writes = 0
          /\ index[pass.mode] = pass.index_before
          /\ log.page_paths \subseteq DOMAIN posts_dir
          /\ \A id \in log.pages : \E f \in log.page_paths : posts_dir[f].id = id
          /\ log.media_files \subseteq media_dir
    /\ pc = "done" =>
          /\ log.index_writes = 1
          /\ pass.i > Len(pass.new_posts)
          /\ pass.k > Len(pass.new_comments)
          /\ Len(pass.posts_html) = Len(pass.new_posts)
          /\ Len(pass.comments_html) = Len(pass.new_comments)

\* What C13 says of a step: the index is written only by the step that ends
\* the pass, which writes only the file of the pass's mode, and no file
\* under posts/ or media/ is written by that step or after it in the pass.
C13_Step ==
    /\ index' # index =>
          /\ pc' = "done" /\ log'.index_writes = 1
          /\ \A m \in Modes \ {pass.mode} : index'[m] = index[m]
    /\ log'.index_writes # log.index_writes =>
          \/ pc' = "done" /\ log'.index_writes = 1
          \/ pc' = "get_posts" /\ log' = NoLog
    /\ (posts_dir' # posts_dir \/ media_dir' # media_dir) =>
          /\ log'.index_writes = 0
          /\ index' = index

\* C13: within one pass the index file is written exactly once, as the last
\* file operation, after all posts and comments were processed; when the
\* pass stops earlier the index file is unchanged and the pages and media
\* files the pass wrote remain on disk.
C13_SingleCommit == []C13_State /\ [][C13_Step]_vars

\* A pass over an index that exists, stopped after it wrote a page and a
\* media file.
C13_Witness ==
    /\ pc \in {"raised", "killed"}
    /\ index[pass.mode].exists
    /\ log.page_paths # {}
    /\ log.media_files # {}

\* posts/{post.id}.html, the file a page link names
LinkTarget(id) == PagePath(<<id>>)

\* C14: after a completed pass, the page link of every post fragment in the
\* index whose page was written names the file written for that post.
C14_LinkConsistency ==
    pc = "done" =>
        LET bytes == index[pass.mode].bytes
        IN  \A i \in 1..Len(bytes) :
                bytes[i].t = "link" =>
                    LET written == {f \in DOMAIN posts_dir :
                                       posts_dir[f].id = bytes[i].v}
                    IN  written # {} => LinkTarget(bytes[i].v) \in written

\* The fragment list holds a fragment of the item itself: one that opens
\* with the item's class and carries the item's identifier.
HasTopLevelFragment(fragments, item_class, id) ==
    \E j \in 1..Len(fragments) :
        /\ Len(fragments[j]) >= 2
        /\ fragments[j][1] = OpenTag(item_class)
        /\ fragments[j][2] = IdAttr(id)

\* C15: after a completed pass every listed post has a post fragment of its
\* own and every listed saved comment a comment fragment of its own in the
\* index, also when its identifier occurs in the file as the id attribute
\* of something else.
C15_Completeness ==
    pc = "done" =>
        /\ \A i \in 1..Len(pass.all_posts) :
              HasTopLevelFragment(embedded[pass.mode].post, "post", pass.all_posts[i].id)
        /\ \A i \in 1..Len(pass.all_comments) :
              HasTopLevelFragment(embedded[pass.mode].comment, "comment",
                                  pass.all_comments[i].id)

====
